---- MODULE Spec2Model ----
(***************************************************************************)
(* A model of the WordprocessingML tree mutation core of python-docx:      *)
(* the run-content codec (CT_R.text, _RunContentAppender and its deleted-  *)
(* text twin), the comment range linker (CT_R.link_comment, CT_P.add_comm, *)
(* CT_P.link_comment, Document.add_comment) and the initials heuristic.    *)
(*                                                                         *)
(* A Python string is a sequence of one-character strings.  An element is  *)
(* a record; the children of an element are a sequence of records, in      *)
(* document order.  The document body is a sequence of paragraphs, each    *)
(* the sequence of the children of one w:p element.                        *)
(***************************************************************************)
EXTENDS Integers, Sequences, FiniteSets, TLC

VARIABLES
    doc,      \* the body: a sequence of paragraphs (sequences of w:p children)
    nextId,   \* the id the comments part gives to the next comment
    nextUid,  \* the identity of the next element object created
    last      \* the last call: its name, arguments and result

vars == <<doc, nextId, nextUid, last>>

-----------------------------------------------------------------------------
(* Bounds of the model.                                                    *)

\* longest text assigned to a run, the documented examples apart
MaxLen == 2
\* most inline-content children of a run before the first call
MaxPrior == 2
\* most comments created in one behaviour
MaxComments == 2
\* longest author name
MaxAuthorLen == 3

-----------------------------------------------------------------------------
(* Python values.                                                          *)

\* Python's None where a string is expected (no string has a 6-letter character)
None == <<"<None>">>

\* no comment or footnote id
NoId == -1

TAB == "\t"
LF == "\n"
CR == "\r"

\* the characters texts are drawn from: a letter, a space and the separators
TextChars == {"a", " ", TAB, LF, CR}

\* str.isspace() on the characters of the model
IsSpace(c) == c \in {" ", TAB, LF, CR}

RECURSIVE Strings(_, _)
\* every string over alphabet of length at most n
Strings(alphabet, n) ==
    IF n = 0 THEN {<<>>}
    ELSE LET shorter == Strings(alphabet, n - 1)
         IN  shorter \cup {Append(s, c) : s \in shorter, c \in alphabet}

RECURSIVE lstrip(_)
lstrip(text) ==
    IF text # <<>> /\ IsSpace(Head(text)) THEN lstrip(Tail(text)) ELSE text

RECURSIVE rstrip(_)
rstrip(text) ==
    IF text # <<>> /\ IsSpace(text[Len(text)])
    THEN rstrip(SubSeq(text, 1, Len(text) - 1))
    ELSE text

\* str.strip()
strip(text) == rstrip(lstrip(text))

\* list.insert(i, x) and lxml's insert(i, x) for i >= 0: past the end appends
ListInsert(children, i, x) ==
    LET k == IF i > Len(children) THEN Len(children) ELSE i
    IN  SubSeq(children, 1, k) \o <<x>> \o SubSeq(children, k + 1, Len(children))

-----------------------------------------------------------------------------
(* Elements.                                                               *)

\* a child of a w:r element, or a sub-element of a w:rPr or w:pPr; kids are
\* the sub-elements of a properties element
RunChild(tag, text, space, type, id, val) ==
    [tag |-> tag, text |-> text, space |-> space, type |-> type, id |-> id, val |-> val,
     kids |-> <<>>]

\* OxmlElement(tag) for a run child without content or attributes
Empty(tag) == RunChild(tag, <<>>, "", "", NoId, "")

\* a child of a w:p element; kids are the children of a w:r
ParChild(tag, id, uid, kids) == [tag |-> tag, id |-> id, uid |-> uid, kids |-> kids]

\* the tags CT_R and CT_P declare (ZeroOrOne / ZeroOrMore), none with
\* successors
SuccessorsOf(tag) == {}

\* BaseOxmlElement.insert_element_before: before the first child whose tag
\* is a successor, at the end when there is none
InsertElementBefore(children, child, successors) ==
    LET later == {i \in 1..Len(children) : children[i].tag \in successors}
    IN  IF later = {} THEN Append(children, child)
        ELSE LET k == CHOOSE i \in later : \A j \in later : i <= j
             IN  ListInsert(children, k - 1, child)

-----------------------------------------------------------------------------
(* CT_R: the children of a run.  Every operator takes the run's children   *)
(* (r) and returns the children after the call.                            *)

\* CT_R.rPr: the first w:rPr child, or absent
HasRPr(r) == \E i \in 1..Len(r) : r[i].tag = "w:rPr"

\* the mutant of add_t: the preserve mark only for leading whitespace
add_t_LeadingOnly(r, text) ==
    LET t == RunChild("w:t", text, "", "", NoId, "")
    IN  InsertElementBefore(r,
            IF Len(lstrip(text)) < Len(text) THEN [t EXCEPT !.space = "preserve"] ELSE t,
            SuccessorsOf("w:t"))

\* CT_R.add_t
add_t(r, text) ==
    LET t == RunChild("w:t", text, "", "", NoId, "")
    IN  InsertElementBefore(r,
            IF Len(strip(text)) < Len(text) THEN [t EXCEPT !.space = "preserve"] ELSE t,
            SuccessorsOf("w:t"))

\* CT_R.add_dt
add_dt(r, text) ==
    LET dt == RunChild("w:delText", text, "", "", NoId, "")
    IN  InsertElementBefore(r,
            IF Len(strip(text)) < Len(text) THEN [dt EXCEPT !.space = "preserve"] ELSE dt,
            SuccessorsOf("w:delText"))

\* CT_R.add_tab
add_tab(r) == InsertElementBefore(r, Empty("w:tab"), SuccessorsOf("w:tab"))

\* CT_R.add_br: a w:br without a w:type attribute
add_br(r) == InsertElementBefore(r, Empty("w:br"), SuccessorsOf("w:br"))

\* the mutant of clear_content: every child is removed
clear_content_All(r) == <<>>

\* CT_R.clear_content (the second definition of the class body, which is the
\* one in force): self[1:] when the run has a w:rPr, self[:] otherwise.  The
\* first child is kept whatever it is; in the runs of this model, as in a
\* schema-valid w:r, a w:rPr is the first child.
clear_content(r) == IF HasRPr(r) THEN <<r[1]>> ELSE <<>>

-----------------------------------------------------------------------------
(* _RunContentAppender: the state is the run's children and the buffer.    *)

\* the mutant of flush: no guard on the empty buffer
flush_NoGuard(st) == [r |-> add_t(st.r, st.bfr), bfr |-> <<>>]

\* _RunContentAppender.flush
flush(st) ==
    LET text == st.bfr
    IN  [r |-> IF text # <<>> THEN add_t(st.r, text) ELSE st.r, bfr |-> <<>>]

\* the mutant of add_char: "\r" is buffered as an ordinary character
add_char_CrBuffered(st, char) ==
    IF char = TAB THEN [flush(st) EXCEPT !.r = add_tab(@)]
    ELSE IF char = LF THEN [flush(st) EXCEPT !.r = add_br(@)]
    ELSE [st EXCEPT !.bfr = Append(@, char)]

\* _RunContentAppender.add_char
add_char(st, char) ==
    IF char = TAB THEN [flush(st) EXCEPT !.r = add_tab(@)]
    ELSE IF char \in {CR, LF} THEN [flush(st) EXCEPT !.r = add_br(@)]
    ELSE [st EXCEPT !.bfr = Append(@, char)]

RECURSIVE add_chars(_, _)
\* the loop of add_text: for char in text: self.add_char(char)
add_chars(st, text) ==
    IF text = <<>> THEN st ELSE add_chars(add_char(st, Head(text)), Tail(text))

\* _RunContentAppender.add_text
add_text(st, text) == flush(add_chars(st, text))

\* _RunContentAppender.append_to_run_from_text
append_to_run_from_text(r, text) == add_text([r |-> r, bfr |-> <<>>], text).r

-----------------------------------------------------------------------------
(* _DelRunContentAppender.                                                 *)

\* _DelRunContentAppender.flush
Del_flush(st) ==
    LET text == st.bfr
    IN  [r |-> IF text # <<>> THEN add_dt(st.r, text) ELSE st.r, bfr |-> <<>>]

\* the mutant of Del_add_char: a tab or line break is added without the
\* buffer being flushed first
Del_add_char_NoFlush(st, char) ==
    IF char = TAB THEN [st EXCEPT !.r = add_tab(@)]
    ELSE IF char \in {CR, LF} THEN [st EXCEPT !.r = add_br(@)]
    ELSE [st EXCEPT !.bfr = Append(@, char)]

\* _DelRunContentAppender.add_char
Del_add_char(st, char) ==
    IF char = TAB THEN [Del_flush(st) EXCEPT !.r = add_tab(@)]
    ELSE IF char \in {CR, LF} THEN [Del_flush(st) EXCEPT !.r = add_br(@)]
    ELSE [st EXCEPT !.bfr = Append(@, char)]

RECURSIVE Del_add_chars(_, _)
\* the loop of add_deltext
Del_add_chars(st, text) ==
    IF text = <<>> THEN st
    ELSE Del_add_chars(Del_add_char(st, Head(text)), Tail(text))

\* _DelRunContentAppender.add_deltext
add_deltext(st, text) == Del_flush(Del_add_chars(st, text))

\* _DelRunContentAppender.append_to_run_from_text
Del_append_to_run_from_text(r, text) == add_deltext([r |-> r, bfr |-> <<>>], text).r

-----------------------------------------------------------------------------
(* The text of a run.                                                      *)

\* the mutant of CT_Br.__str__: every w:br reads as a newline
Br_str_Always(e) == <<LF>>

\* CT_Br.__str__; w:type is an optional attribute defaulting to textWrapping
Br_str(e) ==
    LET type == IF e.type = "" THEN "textWrapping" ELSE e.type
    IN  IF type = "textWrapping" THEN <<LF>> ELSE <<>>

\* str(e) for the elements the getter selects
ElementStr(e) ==
    CASE e.tag = "w:br" -> Br_str(e)
      [] e.tag = "w:cr" -> <<LF>>
      [] e.tag = "w:noBreakHyphen" -> <<"-">>
      [] e.tag = "w:ptab" -> <<TAB>>
      [] e.tag = "w:t" -> e.text
      [] e.tag = "w:tab" -> <<TAB>>

\* the tags of xpath("w:br | w:cr | w:noBreakHyphen | w:ptab | w:t | w:tab")
TextTags == {"w:br", "w:cr", "w:noBreakHyphen", "w:ptab", "w:t", "w:tab"}

RECURSIVE text_of(_)
\* CT_R.text (getter)
text_of(r) ==
    IF r = <<>> THEN <<>>
    ELSE (IF Head(r).tag \in TextTags THEN ElementStr(Head(r)) ELSE <<>>)
         \o text_of(Tail(r))

\* the mutant of the text setter: the old content is kept
set_text_NoClear(r, text) == append_to_run_from_text(r, text)

\* CT_R.text (setter)
set_text(r, text) == append_to_run_from_text(clear_content(r), text)

\* CT_R.deltext (setter)
set_deltext(r, text) == Del_append_to_run_from_text(clear_content(r), text)

-----------------------------------------------------------------------------
(* The body: elements are found by identity (uid), as lxml finds them.     *)

\* the paragraph holding element uid
ParentOf(d, uid) ==
    CHOOSE pi \in 1..Len(d) : \E k \in 1..Len(d[pi]) : d[pi][k].uid = uid

\* the place of element uid among its siblings, from 1
IndexOf(p, uid) == CHOOSE k \in 1..Len(p) : p[k].uid = uid

\* lxml's e.addprevious(x), e the element uid
addprevious(d, uid, x) ==
    LET pi == ParentOf(d, uid)
    IN  [d EXCEPT ![pi] = ListInsert(@, IndexOf(@, uid) - 1, x)]

\* lxml's e.addnext(x), e the element uid
addnext(d, uid, x) ==
    LET pi == ParentOf(d, uid)
    IN  [d EXCEPT ![pi] = ListInsert(@, IndexOf(@, uid), x)]

commentRangeStart(id, uid) == ParChild("w:commentRangeStart", id, uid, <<>>)
commentRangeEnd(id, uid) == ParChild("w:commentRangeEnd", id, uid, <<>>)
commentReference(id) == RunChild("w:commentReference", <<>>, "", "", id, "")

\* CT_R.mark_comment_start on run uid; u is the identity of the new marker
mark_comment_start(d, uid, id, u) == addprevious(d, uid, commentRangeStart(id, u))

\* the mutant of mark_comment_end: the reference run is put next to the run
\* itself (self.addnext) and so before the range end
mark_comment_end_RefAfterRun(d, uid, id, u) ==
    LET ref_run_elem == ParChild("w:r", NoId, u + 1, <<commentReference(id)>>)
    IN  addnext(addnext(d, uid, commentRangeEnd(id, u)), uid, ref_run_elem)

\* CT_R.mark_comment_end on run uid; u, u + 1 are the new identities
mark_comment_end(d, uid, id, u) ==
    LET ref_run_elem == ParChild("w:r", NoId, u + 1, <<commentReference(id)>>)
    IN  addnext(addnext(d, uid, commentRangeEnd(id, u)), u, ref_run_elem)

\* CT_R.link_comment
R_link_comment(d, uid, id, u) ==
    mark_comment_end(mark_comment_start(d, uid, id, u), uid, id, u + 1)

\* CT_P.link_comment on the children p of a paragraph
P_link_comment(p, id, rangeStart, rangeEnd, u) ==
    LET rStart == commentRangeStart(id, u)
        rEnd == commentRangeEnd(id, u + 1)
    IN  IF rangeStart = 0 /\ rangeEnd = 0
        THEN Append(ListInsert(p, 0, rStart), rEnd)
        ELSE LET p1 == ListInsert(p, rangeStart, rStart)
             IN  IF rangeEnd = Len(p1) - 1
                 THEN Append(p1, rEnd)
                 ELSE ListInsert(p1, rangeEnd + 1, rEnd)

\* CT_R.add_comment_reference
add_comment_reference(r, id) == Append(r, commentReference(id))

\* CT_P.add_r: a new w:r inserted by the w:r slot
add_r(p, u) == InsertElementBefore(p, ParChild("w:r", NoId, u, <<>>), SuccessorsOf("w:r"))

\* CT_P.add_comm, after the comments part gave the comment its id
P_add_comm(p, id, rangeStart, rangeEnd, u) ==
    LET p1 == add_r(p, u)
        k == IndexOf(p1, u)
        p2 == [p1 EXCEPT ![k].kids = add_comment_reference(@, id)]
    IN  P_link_comment(p2, id, rangeStart, rangeEnd, u + 1)

-----------------------------------------------------------------------------
(* Document.add_comment: the initials.                                     *)

LowerLetters ==
    <<"a", "b", "c", "d", "e", "f", "g", "h", "i", "j", "k", "l", "m",
      "n", "o", "p", "q", "r", "s", "t", "u", "v", "w", "x", "y", "z">>

UpperLetters ==
    <<"A", "B", "C", "D", "E", "F", "G", "H", "I", "J", "K", "L", "M",
      "N", "O", "P", "Q", "R", "S", "T", "U", "V", "W", "X", "Y", "Z">>

\* str.isupper() of one character
isupper(c) == \E k \in 1..Len(UpperLetters) : UpperLetters[k] = c

\* str.upper() of one character
upper_char(c) ==
    IF \E k \in 1..Len(LowerLetters) : LowerLetters[k] = c
    THEN UpperLetters[CHOOSE k \in 1..Len(LowerLetters) : LowerLetters[k] = c]
    ELSE c

\* upper(n): "".join([c for c in n if c.isupper()])
upper(n) == SelectSeq(n, isupper)

RECURSIVE split(_)
\* n.split(" "): every single space separates, so two spaces in a row, a
\* leading or a trailing space give an empty token
split(n) ==
    LET spaces == {k \in 1..Len(n) : n[k] = " "}
    IN  IF spaces = {} THEN <<n>>
        ELSE LET k == CHOOSE i \in spaces : \A j \in spaces : i <= j
             IN  <<SubSeq(n, 1, k - 1)>> \o split(SubSeq(n, k + 1, Len(n)))

\* splitter(n): "".join([t[0] for t in n.split(" ")]).upper(); t[0] raises
\* IndexError on an empty token
splitter(n) ==
    LET tokens == split(n)
    IN  IF \E k \in 1..Len(tokens) : tokens[k] = <<>>
        THEN [exc |-> "IndexError", val |-> <<>>]
        ELSE [exc |-> "", val |-> [k \in 1..Len(tokens) |-> upper_char(tokens[k][1])]]

\* the initials Document.add_comment gives the comment
comment_initials(author, initials) ==
    IF initials = None
    THEN IF upper(author) = <<>> THEN splitter(author)
         ELSE [exc |-> "", val |-> upper(author)]
    ELSE [exc |-> "", val |-> initials]

\* the marking of Document.add_comment
Document_mark(d, start_run, end_run, id, u) ==
    mark_comment_end(mark_comment_start(d, start_run, id, u), end_run, id, u + 1)

-----------------------------------------------------------------------------
(* The record of the last call.                                            *)

\* node: the identity of the element returned (the place in its run, for
\* a child of a run); sty: the style name passed or returned
NoCall ==
    [op |-> "", s |-> <<>>, ret |-> <<>>, exc |-> "", pre |-> <<>>,
     pi |-> 0, i |-> 0, pj |-> 0, j |-> 0, rs |-> 0, re |-> 0,
     id |-> NoId, author |-> <<>>, initials |-> <<>>, had |-> FALSE,
     node |-> 0, sty |-> ""]

\* the runs of the body, as <<paragraph, child>> positions
Runs(d) ==
    UNION { {<<pi, ci>> : ci \in {c \in 1..Len(d[pi]) : d[pi][c].tag = "w:r"}} :
            pi \in 1..Len(d) }

\* whether the run's children r hold anything but a w:rPr
HasContent(r) == \E k \in 1..Len(r) : r[k].tag # "w:rPr"

-----------------------------------------------------------------------------
(* The codec's specification: one run, with any prior content.             *)

\* the example of the documentation: "a\tb\nc"
ExampleText == <<"a", TAB, "b", LF, "c">>

\* the documented examples: "a\tb\nc", " a ", "a", and one of every separator
ExampleTexts == {ExampleText, <<" ", "a", " ">>, <<"a">>, <<" ", TAB, LF>>}

\* the texts assigned
Texts == Strings(TextChars, MaxLen) \cup ExampleTexts

\* a w:rPr holding a w:rStyle and a w:b
rPrStyled ==
    [RunChild("w:rPr", <<>>, "", "", NoId, "") EXCEPT
        !.kids = <<RunChild("w:rStyle", <<>>, "", "", NoId, "Emphasis"), Empty("w:b")>>]

\* the inline content a loaded run may hold
PriorAtoms ==
    { RunChild("w:t", <<"a">>, "", "", NoId, ""),
      RunChild("w:delText", <<"a">>, "", "", NoId, ""),
      RunChild("w:br", <<>>, "", "page", NoId, ""),
      RunChild("w:commentReference", <<>>, "", "", 0, ""),
      Empty("w:tab"), Empty("w:br"), Empty("w:cr"), Empty("w:noBreakHyphen"),
      Empty("w:ptab"), Empty("w:drawing"), Empty("w:lastRenderedPageBreak") }

\* the children of a loaded run: an optional leading w:rPr, as the schema
\* orders it and as _insert_rPr places it, then inline content
PriorContents ==
    LET inline == Strings(PriorAtoms, MaxPrior)
    IN  inline \cup {<<rPrStyled>> \o c : c \in inline}

InitCodec ==
    /\ doc \in {<< <<ParChild("w:r", NoId, 1, kids)>> >> : kids \in PriorContents}
    /\ nextId = 0
    /\ nextUid = 2
    /\ last = NoCall

\* r.text = s
SetText(pi, ci, s) ==
    /\ doc' = [doc EXCEPT ![pi][ci].kids = set_text(@, s)]
    /\ last' = [NoCall EXCEPT !.op = "set_text", !.s = s, !.pi = pi, !.i = ci,
                              !.had = HasContent(doc[pi][ci].kids)]
    /\ UNCHANGED <<nextId, nextUid>>

\* r.deltext = s
SetDelText(pi, ci, s) ==
    /\ doc' = [doc EXCEPT ![pi][ci].kids = set_deltext(@, s)]
    /\ last' = [NoCall EXCEPT !.op = "set_deltext", !.s = s, !.pi = pi, !.i = ci,
                              !.had = HasContent(doc[pi][ci].kids)]
    /\ UNCHANGED <<nextId, nextUid>>

\* r.clear_content()
ClearContent(pi, ci) ==
    /\ doc' = [doc EXCEPT ![pi][ci].kids = clear_content(@)]
    /\ last' = [NoCall EXCEPT !.op = "clear_content", !.pi = pi, !.i = ci,
                              !.had = HasContent(doc[pi][ci].kids)]
    /\ UNCHANGED <<nextId, nextUid>>

\* r.text
GetText(pi, ci) ==
    /\ last' = [NoCall EXCEPT !.op = "text", !.ret = text_of(doc[pi][ci].kids),
                              !.pi = pi, !.i = ci]
    /\ UNCHANGED <<doc, nextId, nextUid>>

NextCodec ==
    \/ \E pos \in Runs(doc), s \in Texts : SetText(pos[1], pos[2], s)
    \/ \E pos \in Runs(doc), s \in Texts : SetDelText(pos[1], pos[2], s)
    \/ \E pos \in Runs(doc) : ClearContent(pos[1], pos[2])
    \/ \E pos \in Runs(doc) : GetText(pos[1], pos[2])

SpecCodec == InitCodec /\ [][NextCodec]_vars

-----------------------------------------------------------------------------
(* Properties of the codec, checked under SpecCodec.                       *)

\* the children of the run of the last call
LastRun == doc[last.pi][last.i].kids

IsInline(e) == e.tag # "w:rPr"
IsRPr(e) == e.tag = "w:rPr"

\* the inline content of a run: its children but the w:rPr
Content(r) == SelectSeq(r, IsInline)

\* the w:rPr children of a run
RPrOf(r) == SelectSeq(r, IsRPr)

Chars(text) == {text[k] : k \in 1..Len(text)}

Text(chars, space) == RunChild("w:t", chars, space, "", NoId, "")

RECURSIVE Flatten(_)
Flatten(seqs) == IF seqs = <<>> THEN <<>> ELSE Head(seqs) \o Flatten(Tail(seqs))

\* C1: for every string s without "\r" and any prior content of the run,
\* reading the text of a run whose text was just set to s returns s.
RoundTrip ==
    (last.op = "set_text" /\ CR \notin Chars(last.s)) => text_of(LastRun) = last.s

\* a text with a space, a tab and a newline was assigned over prior content
RoundTripWitness ==
    /\ last.op = "set_text"
    /\ last.s = <<" ", TAB, LF>>
    /\ last.had
    /\ text_of(LastRun) = <<" ", TAB, LF>>

\* what an atom of the encoding stands for: a tab, a line break (written
\* as LF) or the characters of a text atom
AtomChars(e) ==
    IF e.tag = "w:tab" THEN <<TAB>>
    ELSE IF e.tag = "w:br" THEN <<LF>>
    ELSE e.text

\* C2: encoding appends, in input order, one w:tab per tab, one w:br per
\* "\n" and per "\r", and one w:t per maximal block of other characters,
\* holding exactly those characters; "a\tb\nc" gives t(a), tab, t(b), br, t(c).
EncodingShape ==
    last.op = "set_text" =>
        LET atoms == Content(LastRun)
            s == last.s
        IN  /\ \A k \in 1..Len(atoms) : atoms[k].tag \in {"w:t", "w:tab", "w:br"}
            /\ Flatten([k \in 1..Len(atoms) |-> AtomChars(atoms[k])])
                 = [k \in 1..Len(s) |-> IF s[k] = CR THEN LF ELSE s[k]]
            /\ \A k \in 1..Len(atoms) :
                 atoms[k].tag = "w:t" =>
                    /\ atoms[k].text # <<>>
                    /\ Chars(atoms[k].text) \cap {TAB, LF, CR} = {}
                    /\ k < Len(atoms) => atoms[k + 1].tag # "w:t"
            /\ \A k \in 1..Len(atoms) :
                 atoms[k].tag # "w:t" => atoms[k] = Empty(atoms[k].tag)
            /\ s = <<CR, LF>> => atoms = <<Empty("w:br"), Empty("w:br")>>
            /\ s = ExampleText =>
                 atoms = <<Text(<<"a">>, ""), Empty("w:tab"), Text(<<"b">>, ""),
                           Empty("w:br"), Text(<<"c">>, "")>>

\* the example of the documentation was encoded
EncodingShapeWitness ==
    /\ last.op = "set_text"
    /\ last.s = ExampleText
    /\ Len(Content(LastRun)) = 5

\* C3: encoding never appends a w:t or w:delText without characters; the
\* empty string appends nothing, and separators alone append no text atom.
EmptyBufferGuard ==
    /\ \A pos \in Runs(doc) :
         LET r == doc[pos[1]][pos[2]].kids
         IN  \A k \in 1..Len(r) : r[k].tag \in {"w:t", "w:delText"} => r[k].text # <<>>
    /\ last.op \in {"set_text", "set_deltext"} =>
         /\ last.s = <<>> => Content(LastRun) = <<>>
         /\ Chars(last.s) \subseteq {TAB, LF, CR} =>
              /\ Len(Content(LastRun)) = Len(last.s)
              /\ \A k \in 1..Len(LastRun) : LastRun[k].tag \notin {"w:t", "w:delText"}

\* two consecutive tabs were encoded
EmptyBufferGuardWitness ==
    /\ last.op = "set_text"
    /\ last.s = <<TAB, TAB>>
    /\ Content(LastRun) = <<Empty("w:tab"), Empty("w:tab")>>

\* C4 as stated: encode(" a ") yields the single atom Text(" a") with the
\* preserve mark.
WhitespaceAsStated ==
    (last.op = "set_text" /\ last.s = <<" ", "a", " ">>) =>
        Content(LastRun) = <<Text(<<" ", "a">>, "preserve")>>

\* C4 as amended: encode(" a ") yields the single atom Text(" a ") with the
\* preserve mark, encode("a") yields Text("a") without it, and every w:t
\* emitted carries the mark exactly when its string starts or ends with
\* whitespace.
WhitespacePreserved ==
    last.op = "set_text" =>
        LET atoms == Content(LastRun)
        IN  /\ last.s = <<" ", "a", " ">> =>
                 atoms = <<Text(<<" ", "a", " ">>, "preserve")>>
            /\ last.s = <<"a">> => atoms = <<Text(<<"a">>, "")>>
            /\ \A k \in 1..Len(atoms) :
                 atoms[k].tag = "w:t" =>
                    LET str == atoms[k].text
                    IN  (atoms[k].space = "preserve")
                          <=> (IsSpace(str[1]) \/ IsSpace(str[Len(str)]))

\* " a " was encoded
WhitespaceWitness ==
    /\ last.op = "set_text"
    /\ last.s = <<" ", "a", " ">>
    /\ Len(Content(LastRun)) = 1
    /\ LastRun[Len(LastRun)].space = "preserve"

\* C5: setting the text removes every inline-content child and leaves the
\* w:rPr in place and unchanged: the children are then the optional w:rPr
\* followed by the atoms encoded from the new text; clear_content leaves
\* exactly the w:rPr.
SetTextFrame ==
    [][ /\ last'.op = "set_text" =>
             doc'[last'.pi][last'.i].kids
                = RPrOf(doc[last'.pi][last'.i].kids)
                    \o append_to_run_from_text(<<>>, last'.s)
        /\ last'.op = "clear_content" =>
             doc'[last'.pi][last'.i].kids = RPrOf(doc[last'.pi][last'.i].kids)
      ]_vars

\* the text of a run with a w:rPr and inline content was set
SetTextFrameWitness ==
    /\ last.op = "set_text"
    /\ last.had
    /\ LastRun = <<rPrStyled, Text(<<"a">>, "")>>

RECURSIVE DecodeAsStated(_)
\* the text of a run as C6 states it: every w:br is a newline
DecodeAsStated(r) ==
    IF r = <<>> THEN <<>>
    ELSE LET e == Head(r)
         IN  (CASE e.tag = "w:t" -> e.text
                [] e.tag \in {"w:tab", "w:ptab"} -> <<TAB>>
                [] e.tag \in {"w:br", "w:cr"} -> <<LF>>
                [] e.tag = "w:noBreakHyphen" -> <<"-">>
                [] OTHER -> <<>>) \o DecodeAsStated(Tail(r))

RECURSIVE DecodeByType(_)
\* the same, but a w:br whose w:type is page or column reads as nothing
DecodeByType(r) ==
    IF r = <<>> THEN <<>>
    ELSE LET e == Head(r)
         IN  (CASE e.tag = "w:t" -> e.text
                [] e.tag \in {"w:tab", "w:ptab"} -> <<TAB>>
                [] e.tag = "w:cr" -> <<LF>>
                [] e.tag = "w:br" /\ e.type \in {"", "textWrapping"} -> <<LF>>
                [] e.tag = "w:noBreakHyphen" -> <<"-">>
                [] OTHER -> <<>>) \o DecodeByType(Tail(r))

\* C6 as stated: the text read is the concatenation, in child order, of
\* each w:t's characters, "\t" per w:tab and w:ptab, "\n" per w:br and w:cr,
\* "-" per w:noBreakHyphen, and nothing for the other children.
DecodeStated == last.op = "text" => last.ret = DecodeAsStated(LastRun)

\* C6 as amended: "\n" per w:cr and per w:br whose w:type is textWrapping or
\* absent; a w:br of another type (page, column) contributes nothing.
DecodeTyped == last.op = "text" => last.ret = DecodeByType(LastRun)

\* the text of a run holding a page break and a no-break hyphen was read
DecodeWitness ==
    /\ last.op = "text"
    /\ LastRun = <<RunChild("w:br", <<>>, "", "page", NoId, ""), Empty("w:noBreakHyphen")>>
    /\ last.ret = <<"-">>

-----------------------------------------------------------------------------
(* The comment linker's specification: two paragraphs of runs.             *)

pPr == ParChild("w:pPr", NoId, 1, <<>>)

Run(uid, chars) == ParChild("w:r", NoId, uid, <<Text(chars, "")>>)

\* a paragraph of a w:pPr and two runs, and a paragraph of one run
InitComment ==
    /\ doc = << <<pPr, Run(2, <<"a">>), Run(3, <<"b">>)>>, <<Run(4, <<"c">>)>> >>
    /\ nextId = 0
    /\ nextUid = 5
    /\ last = NoCall

\* r.link_comment(id), r the run at pos, id a new comment's id
RunLinkComment(pos) ==
    /\ nextId < MaxComments
    /\ doc' = R_link_comment(doc, doc[pos[1]][pos[2]].uid, nextId, nextUid)
    /\ nextId' = nextId + 1
    /\ nextUid' = nextUid + 3
    /\ last' = [NoCall EXCEPT !.op = "link_comment", !.pre = doc, !.id = nextId,
                              !.pi = pos[1], !.i = pos[2], !.pj = pos[1], !.j = pos[2]]

\* document.add_comment(start_run, end_run, author, dtime, comment_text, initials)
DocAddComment(start, end, author, initials) ==
    /\ nextId < MaxComments
    /\ LET ini == comment_initials(author, initials)
           call == [NoCall EXCEPT !.op = "add_comment", !.pre = doc, !.author = author,
                                  !.s = initials,
                                  !.pi = start[1], !.i = start[2],
                                  !.pj = end[1], !.j = end[2]]
       IN  IF ini.exc # ""
           THEN /\ last' = [call EXCEPT !.exc = ini.exc]
                /\ UNCHANGED <<doc, nextId, nextUid>>
           ELSE /\ doc' = Document_mark(doc, doc[start[1]][start[2]].uid,
                                        doc[end[1]][end[2]].uid, nextId, nextUid)
                /\ nextId' = nextId + 1
                /\ nextUid' = nextUid + 3
                /\ last' = [call EXCEPT !.id = nextId, !.initials = ini.val]

\* p.add_comm(author, comment_part, initials, dtime, comment_text, rs, re)
ParAddComm(pi, rs, re) ==
    /\ nextId < MaxComments
    /\ doc' = [doc EXCEPT ![pi] = P_add_comm(@, nextId, rs, re, nextUid)]
    /\ nextId' = nextId + 1
    /\ nextUid' = nextUid + 3
    /\ last' = [NoCall EXCEPT !.op = "add_comm", !.pre = doc, !.id = nextId,
                              !.pi = pi, !.rs = rs, !.re = re]

\* p.link_comment(id, rs, re), id a new comment's id
ParLinkComment(pi, rs, re) ==
    /\ nextId < MaxComments
    /\ doc' = [doc EXCEPT ![pi] = P_link_comment(@, nextId, rs, re, nextUid)]
    /\ nextId' = nextId + 1
    /\ nextUid' = nextUid + 2
    /\ last' = [NoCall EXCEPT !.op = "p_link_comment", !.pre = doc, !.id = nextId,
                              !.pi = pi, !.rs = rs, !.re = re]

NextComment ==
    \/ \E pos \in Runs(doc) : RunLinkComment(pos)
    \/ \E start \in Runs(doc), end \in Runs(doc) :
          DocAddComment(start, end, <<"R", "m">>, None)
    \/ \E pi \in 1..Len(doc) : \E rs \in 0..Len(doc[pi]), re \in 0..Len(doc[pi]) :
          ParAddComm(pi, rs, re)
    \/ \E pi \in 1..Len(doc) : \E rs \in 0..Len(doc[pi]), re \in 0..Len(doc[pi]) :
          ParLinkComment(pi, rs, re)

SpecComment == InitComment /\ [][NextComment]_vars

-----------------------------------------------------------------------------
(* The initials' specification: one comment on one run, by any author.     *)

AuthorChars == {"r", "m", "R", "M", " "}

\* the examples of the documentation
ExampleAuthors ==
    { <<"R", "y", "a", "n", " ", "M", "a", "n", "n", "i", "o", "n">>,
      <<"B", "l", "a", "c", "k", "B", "o", "i", "l", "e", "r">>,
      <<"r", "y", "a", "n", " ", "m", "a", "n", "n", "i", "o", "n">> }

Authors == Strings(AuthorChars, MaxAuthorLen) \cup ExampleAuthors

\* the comments part holds all but the last comment of the bound already
InitInitials ==
    /\ doc = << <<Run(2, <<"a">>)>> >>
    /\ nextId = MaxComments - 1
    /\ nextUid = 3
    /\ last = NoCall

NextInitials ==
    \E author \in Authors, initials \in {None, <<"x", "Y">>} :
        \E start \in Runs(doc), end \in Runs(doc) :
            DocAddComment(start, end, author, initials)

SpecInitials == InitInitials /\ [][NextInitials]_vars

-----------------------------------------------------------------------------
(* Properties of the comment linker, checked under SpecComment.            *)

IsStart(e, id) == e.tag = "w:commentRangeStart" /\ e.id = id
IsEnd(e, id) == e.tag = "w:commentRangeEnd" /\ e.id = id
IsReferenceRun(e, id) ==
    e.tag = "w:r" /\ \E k \in 1..Len(e.kids) : e.kids[k] = commentReference(id)

\* C7: marking a comment over the sibling runs firstRun..lastRun, firstRun at
\* or before lastRun, puts rangeStart(id) right before firstRun, rangeEnd(id)
\* right after lastRun and a new run holding only reference(id) right after
\* rangeEnd; every other sibling and every other paragraph stays as it was.
CommentPlacement ==
    (/\ last.op \in {"link_comment", "add_comment"}
     /\ last.exc = ""
     /\ last.pi = last.pj
     /\ last.i <= last.j) =>
        LET p == last.pre[last.pi]
            q == doc[last.pi]
            i == last.i
            j == last.j
        IN  /\ Len(q) = Len(p) + 3
            /\ SubSeq(q, 1, i - 1) = SubSeq(p, 1, i - 1)
            /\ IsStart(q[i], last.id)
            /\ SubSeq(q, i + 1, j + 1) = SubSeq(p, i, j)
            /\ IsEnd(q[j + 2], last.id)
            /\ q[j + 3].tag = "w:r"
            /\ q[j + 3].kids = <<commentReference(last.id)>>
            /\ SubSeq(q, j + 4, Len(q)) = SubSeq(p, j + 1, Len(p))
            /\ \A pk \in 1..Len(doc) : pk # last.pi => doc[pk] = last.pre[pk]

\* a second comment was marked over a span of more than one run
CommentPlacementWitness ==
    /\ last.op = "add_comment"
    /\ last.exc = ""
    /\ last.id = 1
    /\ last.pi = last.pj
    /\ last.i < last.j

\* C8: in every paragraph and for every comment id, rangeStart(id) is at or
\* before rangeEnd(id), which is at or before the run holding reference(id).
AnchorOrder ==
    \A pi \in 1..Len(doc) : \A id \in 0..MaxComments :
        \A a \in 1..Len(doc[pi]), b \in 1..Len(doc[pi]) :
            /\ (IsStart(doc[pi][a], id) /\ IsEnd(doc[pi][b], id)) => a <= b
            /\ (IsEnd(doc[pi][a], id) /\ IsReferenceRun(doc[pi][b], id)) => a <= b
            /\ (IsStart(doc[pi][a], id) /\ IsReferenceRun(doc[pi][b], id)) => a <= b

\* C9: a span comment whose last run precedes its first run, or whose runs
\* are in different paragraphs, fails with RangeError and changes nothing.
SpanRejected ==
    (/\ last.op = "add_comment"
     /\ \/ last.pi # last.pj
        \/ last.j < last.i) =>
        /\ last.exc = "RangeError"
        /\ doc = last.pre

-----------------------------------------------------------------------------
(* Properties of the initials, checked under SpecInitials.                 *)

\* the author's tokens: the maximal blocks without whitespace
RECURSIVE Tokens(_)
Tokens(n) ==
    LET body == lstrip(n)
        ends == {k \in 1..Len(body) : IsSpace(body[k])}
    IN  IF body = <<>> THEN <<>>
        ELSE IF ends = {} THEN <<body>>
        ELSE LET k == CHOOSE i \in ends : \A j \in ends : i <= j
             IN  <<SubSeq(body, 1, k - 1)>> \o Tokens(SubSeq(body, k, Len(body)))

\* the initials as documented: the uppercase letters of the author, or when
\* there are none the first character of each token, uppercased
DerivedInitials(author) ==
    IF upper(author) # <<>> THEN upper(author)
    ELSE LET tokens == Tokens(author)
         IN  [k \in 1..Len(tokens) |-> upper_char(tokens[k][1])]

\* C10: without initials, add_comment gives the comment the derived initials,
\* for every author; initials passed are used unchanged.
InitialsHeuristic ==
    last.op = "add_comment" =>
        /\ last.exc = ""
        /\ last.initials = IF last.s = None THEN DerivedInitials(last.author) ELSE last.s

-----------------------------------------------------------------------------
(* The declared child slots of CT_P and CT_R and the calls they give.      *)

\* bound: the children a paragraph gets by the slot calls
MaxChildren == 3

\* the child tags CT_P declares, in the order of the declarations
P_Slots == <<"w:pPr", "w:hyperlink", "w:r", "w:del", "w:ins">>

\* the child tags CT_R declares, in the order of the declarations
R_Slots == <<"w:rPr", "w:br", "w:cr", "w:drawing", "w:t", "w:delText", "w:tab">>

HasTag(children, tag) == \E k \in 1..Len(children) : children[k].tag = tag

Count(children, tag) == Cardinality({k \in 1..Len(children) : children[k].tag = tag})

\* the place of the first child with the tag: find(tag)
FirstIndex(children, tag) ==
    CHOOSE k \in 1..Len(children) :
        /\ children[k].tag = tag
        /\ \A j \in 1..(k - 1) : children[j].tag # tag

\* CT_P._insert_pPr
insert_pPr(p, x) == ListInsert(p, 0, x)

\* the mutant of get_or_add_pPr: a w:pPr is added whether or not one is there
get_or_add_pPr_AlwaysAdd(p, u) == insert_pPr(p, ParChild("w:pPr", NoId, u, <<>>))

\* CT_P.get_or_add_pPr; u is the identity of the w:pPr if one is made
get_or_add_pPr(p, u) ==
    IF HasTag(p, "w:pPr") THEN p ELSE insert_pPr(p, ParChild("w:pPr", NoId, u, <<>>))

\* CT_P.add_d and CT_P.add_i: a new w:del, w:ins inserted by its slot
add_d(p, u) == InsertElementBefore(p, ParChild("w:del", NoId, u, <<>>), SuccessorsOf("w:del"))
add_i(p, u) == InsertElementBefore(p, ParChild("w:ins", NoId, u, <<>>), SuccessorsOf("w:ins"))

\* CT_R._insert_rPr
insert_rPr(r, x) == ListInsert(r, 0, x)

\* CT_R.get_or_add_rPr
get_or_add_rPr(r) == IF HasTag(r, "w:rPr") THEN r ELSE insert_rPr(r, Empty("w:rPr"))

\* get_or_add_pStyle and get_or_add_rStyle on the sub-elements of a w:pPr
\* or w:rPr: the style is the first slot, every other sub-element follows it
get_or_add_style(kids, tag) ==
    IF HasTag(kids, tag) THEN kids
    ELSE InsertElementBefore(kids, Empty(tag), {kids[k].tag : k \in 1..Len(kids)})

\* the sub-elements with the w:val of the first one of the tag set to val
SetVal(kids, tag, val) == [kids EXCEPT ![FirstIndex(kids, tag)].val = val]

\* CT_P.footnote_style
footnote_style(p, u) ==
    LET p1 == get_or_add_pPr(p, u)
        k == FirstIndex(p1, "w:pPr")
    IN  [p1 EXCEPT ![k].kids = SetVal(get_or_add_style(@, "w:pStyle"), "w:pStyle", "FootnoteText")]

-----------------------------------------------------------------------------
(* SpecSlots: a paragraph built from nothing by the slot calls.            *)

InitSlots ==
    /\ doc = << <<>> >>
    /\ nextId = 0
    /\ nextUid = 1
    /\ last = NoCall

\* the identity to give next, after the children p were made
UidAfter(p) == IF \E k \in 1..Len(p) : p[k].uid = nextUid THEN nextUid + 1 ELSE nextUid

GetOrAddPPr(pi) ==
    /\ Len(doc[pi]) < MaxChildren \/ HasTag(doc[pi], "w:pPr")
    /\ LET p1 == get_or_add_pPr(doc[pi], nextUid)
       IN  /\ doc' = [doc EXCEPT ![pi] = p1]
           /\ nextUid' = UidAfter(p1)
           /\ last' = [NoCall EXCEPT !.op = "get_or_add_pPr", !.pi = pi,
                                     !.had = HasTag(doc[pi], "w:pPr"),
                                     !.node = p1[FirstIndex(p1, "w:pPr")].uid]
    /\ UNCHANGED nextId

AddR(pi) ==
    /\ Len(doc[pi]) < MaxChildren
    /\ doc' = [doc EXCEPT ![pi] = add_r(@, nextUid)]
    /\ nextUid' = nextUid + 1
    /\ last' = [NoCall EXCEPT !.op = "add_r", !.pi = pi, !.node = nextUid]
    /\ UNCHANGED nextId

AddD(pi) ==
    /\ Len(doc[pi]) < MaxChildren
    /\ doc' = [doc EXCEPT ![pi] = add_d(@, nextUid)]
    /\ nextUid' = nextUid + 1
    /\ last' = [NoCall EXCEPT !.op = "add_d", !.pi = pi, !.node = nextUid]
    /\ UNCHANGED nextId

AddI(pi) ==
    /\ Len(doc[pi]) < MaxChildren
    /\ doc' = [doc EXCEPT ![pi] = add_i(@, nextUid)]
    /\ nextUid' = nextUid + 1
    /\ last' = [NoCall EXCEPT !.op = "add_i", !.pi = pi, !.node = nextUid]
    /\ UNCHANGED nextId

GetOrAddRPr(pi, i) ==
    /\ doc[pi][i].tag = "w:r"
    /\ LET r1 == get_or_add_rPr(doc[pi][i].kids)
       IN  /\ doc' = [doc EXCEPT ![pi][i].kids = r1]
           /\ last' = [NoCall EXCEPT !.op = "get_or_add_rPr", !.pi = pi, !.i = i,
                                     !.had = HasTag(doc[pi][i].kids, "w:rPr"),
                                     !.node = FirstIndex(r1, "w:rPr")]
    /\ UNCHANGED <<nextId, nextUid>>

GetOrAddPStyle(pi) ==
    /\ HasTag(doc[pi], "w:pPr")
    /\ LET k == FirstIndex(doc[pi], "w:pPr")
           kids1 == get_or_add_style(doc[pi][k].kids, "w:pStyle")
       IN  /\ doc' = [doc EXCEPT ![pi][k].kids = kids1]
           /\ last' = [NoCall EXCEPT !.op = "get_or_add_pStyle", !.pi = pi, !.i = k,
                                     !.had = HasTag(doc[pi][k].kids, "w:pStyle"),
                                     !.node = FirstIndex(kids1, "w:pStyle")]
    /\ UNCHANGED <<nextId, nextUid>>

FootnoteStyle(pi) ==
    /\ Len(doc[pi]) < MaxChildren \/ HasTag(doc[pi], "w:pPr")
    /\ LET p1 == footnote_style(doc[pi], nextUid)
       IN  /\ doc' = [doc EXCEPT ![pi] = p1]
           /\ nextUid' = UidAfter(p1)
           /\ last' = [NoCall EXCEPT !.op = "footnote_style", !.pi = pi,
                                     !.had = HasTag(doc[pi], "w:pPr")]
    /\ UNCHANGED nextId

NextSlots ==
    \/ \E pi \in 1..Len(doc) : GetOrAddPPr(pi)
    \/ \E pi \in 1..Len(doc) : AddR(pi)
    \/ \E pi \in 1..Len(doc) : AddD(pi)
    \/ \E pi \in 1..Len(doc) : AddI(pi)
    \/ \E pi \in 1..Len(doc) : \E i \in 1..Len(doc[pi]) : GetOrAddRPr(pi, i)
    \/ \E pi \in 1..Len(doc) : GetOrAddPStyle(pi)
    \/ \E pi \in 1..Len(doc) : FootnoteStyle(pi)

SpecSlots == InitSlots /\ [][NextSlots]_vars

-----------------------------------------------------------------------------
(* Properties of the slot calls, checked under SpecSlots.                  *)

\* the place of a declared tag in the declarations
SlotIndex(slots, tag) == CHOOSE k \in 1..Len(slots) : slots[k] = tag

\* C11: after any interleaving of get_or_add_pPr, add_r, add_d and add_i the
\* children of a paragraph follow the declared order of their slots:
\* w:pPr?, w:hyperlink*, w:r*, w:del*, w:ins*.
SlotOrder ==
    \A pi \in 1..Len(doc) : \A j, k \in 1..Len(doc[pi]) :
        j < k => SlotIndex(P_Slots, doc[pi][j].tag) <= SlotIndex(P_Slots, doc[pi][k].tag)

\* the children the last call looked among for its singleton
Siblings(d, call) ==
    IF call.op = "get_or_add_pPr" THEN d[call.pi]
    ELSE d[call.pi][call.i].kids

SingletonTag(call) ==
    IF call.op = "get_or_add_pPr" THEN "w:pPr"
    ELSE IF call.op = "get_or_add_rPr" THEN "w:rPr" ELSE "w:pStyle"

\* C12: of two get_or_add calls in a row for the same singleton of the same
\* parent, the second returns the node the first returned and changes
\* nothing, and the parent has exactly one child with that tag.
GetOrAddIdempotent ==
    [][(/\ last.op \in {"get_or_add_pPr", "get_or_add_rPr", "get_or_add_pStyle"}
        /\ last'.op = last.op /\ last'.pi = last.pi /\ last'.i = last.i)
       => /\ doc' = doc
          /\ last'.node = last.node
          /\ Count(Siblings(doc', last'), SingletonTag(last')) = 1]_vars

\* a get_or_add_pPr call found the w:pPr an earlier call had made, next to
\* other children
GetOrAddIdempotentWitness ==
    /\ last.op = "get_or_add_pPr"
    /\ last.had
    /\ Count(doc[last.pi], "w:pPr") = 1
    /\ Len(doc[last.pi]) > 1

-----------------------------------------------------------------------------
(* Styles and references: CT_P.style, CT_R.style and the references a run  *)
(* is given.                                                               *)

\* the style of an element without one: None
NoStyle == "<None>"

StyleNames == {"Heading1"}

\* CT_PPr.style and CT_RPr.style (getter) on the sub-elements of the
\* properties; tag is the style sub-element, w:pStyle or w:rStyle
props_style(kids, tag) ==
    IF HasTag(kids, tag) THEN kids[FirstIndex(kids, tag)].val ELSE NoStyle

\* the sub-elements but those of the tag: _remove_pStyle, _remove_rStyle
RemoveAll(kids, tag) == SelectSeq(kids, LAMBDA e : e.tag # tag)

\* CT_PPr.style and CT_RPr.style (setter)
props_set_style(kids, tag, style) ==
    IF style = NoStyle THEN RemoveAll(kids, tag)
    ELSE SetVal(get_or_add_style(kids, tag), tag, style)

\* CT_P.style (getter)
P_style(p) ==
    IF ~HasTag(p, "w:pPr") THEN NoStyle
    ELSE props_style(p[FirstIndex(p, "w:pPr")].kids, "w:pStyle")

\* the mutant of P_set_style: the style is set on the w:pPr that is there
\* (self.pPr) and not at all when there is none
P_set_style_NoCreate(p, style, u) ==
    IF ~HasTag(p, "w:pPr") THEN p
    ELSE [p EXCEPT ![FirstIndex(p, "w:pPr")].kids = props_set_style(@, "w:pStyle", style)]

\* CT_P.style (setter); u is the identity of the w:pPr if one is made
P_set_style(p, style, u) ==
    LET p1 == get_or_add_pPr(p, u)
    IN  [p1 EXCEPT ![FirstIndex(p1, "w:pPr")].kids = props_set_style(@, "w:pStyle", style)]

\* CT_R.style (getter)
R_style(r) ==
    IF ~HasTag(r, "w:rPr") THEN NoStyle
    ELSE props_style(r[FirstIndex(r, "w:rPr")].kids, "w:rStyle")

\* CT_R.style (setter)
R_set_style(r, style) ==
    LET r1 == get_or_add_rPr(r)
    IN  [r1 EXCEPT ![FirstIndex(r1, "w:rPr")].kids = props_set_style(@, "w:rStyle", style)]

footnoteReference(id) == RunChild("w:footnoteReference", <<>>, "", "", id, "")

\* CT_R.add_footnote_reference
add_footnote_reference(r, id) ==
    LET r1 == R_set_style(r, "FootnoteReference")
    IN  Append(r1, footnoteReference(id))

-----------------------------------------------------------------------------
(* SpecStyle: a paragraph without properties and one with, their styles    *)
(* set and read and their runs given references.                           *)

\* a w:pPr holding a w:jc
pPrAligned == ParChild("w:pPr", NoId, 2, <<Empty("w:jc")>>)

InitStyle ==
    /\ doc = << <<ParChild("w:r", NoId, 1, <<>>)>>,
                <<pPrAligned, ParChild("w:r", NoId, 3, <<rPrStyled, Text(<<"a">>, "")>>)>> >>
    /\ nextId = 0
    /\ nextUid = 4
    /\ last = NoCall

ParSetStyle(pi, style) ==
    /\ LET p1 == P_set_style(doc[pi], style, nextUid)
       IN  /\ doc' = [doc EXCEPT ![pi] = p1]
           /\ nextUid' = UidAfter(p1)
    /\ last' = [NoCall EXCEPT !.op = "p_set_style", !.pi = pi, !.sty = style,
                              !.had = P_style(doc[pi]) # NoStyle]
    /\ UNCHANGED nextId

ParGetStyle(pi) ==
    /\ last' = [NoCall EXCEPT !.op = "p_style", !.pi = pi, !.sty = P_style(doc[pi])]
    /\ UNCHANGED <<doc, nextId, nextUid>>

RunSetStyle(pi, i, style) ==
    /\ doc[pi][i].tag = "w:r"
    /\ doc' = [doc EXCEPT ![pi][i].kids = R_set_style(@, style)]
    /\ last' = [NoCall EXCEPT !.op = "r_set_style", !.pi = pi, !.i = i, !.sty = style,
                              !.had = R_style(doc[pi][i].kids) # NoStyle]
    /\ UNCHANGED <<nextId, nextUid>>

RunGetStyle(pi, i) ==
    /\ doc[pi][i].tag = "w:r"
    /\ last' = [NoCall EXCEPT !.op = "r_style", !.pi = pi, !.i = i,
                              !.sty = R_style(doc[pi][i].kids)]
    /\ UNCHANGED <<doc, nextId, nextUid>>

\* the footnotes part and the comments part give the next id
AddFootnoteReference(pi, i) ==
    /\ doc[pi][i].tag = "w:r"
    /\ nextId < MaxComments
    /\ doc' = [doc EXCEPT ![pi][i].kids = add_footnote_reference(@, nextId)]
    /\ nextId' = nextId + 1
    /\ last' = [NoCall EXCEPT !.op = "add_footnote_reference", !.pi = pi, !.i = i,
                              !.id = nextId]
    /\ UNCHANGED nextUid

AddCommentReference(pi, i) ==
    /\ doc[pi][i].tag = "w:r"
    /\ nextId < MaxComments
    /\ doc' = [doc EXCEPT ![pi][i].kids = add_comment_reference(@, nextId)]
    /\ nextId' = nextId + 1
    /\ last' = [NoCall EXCEPT !.op = "add_comment_reference", !.pi = pi, !.i = i,
                              !.id = nextId]
    /\ UNCHANGED nextUid

NextStyle ==
    \/ \E pi \in 1..Len(doc) : \E style \in StyleNames \cup {NoStyle} : ParSetStyle(pi, style)
    \/ \E pi \in 1..Len(doc) : ParGetStyle(pi)
    \/ \E pi \in 1..Len(doc) : \E i \in 1..Len(doc[pi]) :
           \E style \in StyleNames \cup {NoStyle} : RunSetStyle(pi, i, style)
    \/ \E pi \in 1..Len(doc) : \E i \in 1..Len(doc[pi]) : RunGetStyle(pi, i)
    \/ \E pi \in 1..Len(doc) : \E i \in 1..Len(doc[pi]) : AddFootnoteReference(pi, i)
    \/ \E pi \in 1..Len(doc) : \E i \in 1..Len(doc[pi]) : AddCommentReference(pi, i)

SpecStyle == InitStyle /\ [][NextStyle]_vars

-----------------------------------------------------------------------------
(* Properties of styles and references, checked under SpecStyle.           *)

Declared(slots, tag) == \E k \in 1..Len(slots) : slots[k] = tag

\* the tag of the child a call asks its run to take
InsertedTag(op) ==
    IF op = "add_footnote_reference" THEN "w:footnoteReference"
    ELSE IF op = "add_comment_reference" THEN "w:commentReference" ELSE ""

\* C13: a call that asks a run to take a child whose tag the slots of w:r do
\* not declare fails with SchemaViolation and leaves the tree as it was.
SchemaViolationAborts ==
    [][(InsertedTag(last'.op) # "" /\ ~Declared(R_Slots, InsertedTag(last'.op)))
       => (last'.exc = "SchemaViolation" /\ doc' = doc)]_vars

\* the sub-elements of the first child of the tag, none when there is none
PropsOf(children, tag) ==
    IF HasTag(children, tag) THEN children[FirstIndex(children, tag)].kids ELSE <<>>

\* C14: the style of a paragraph or run reads None when the properties or
\* the style sub-element are absent; after the style is set to v it reads v;
\* after it is set to None it reads None, the properties element is there
\* and nothing but its style sub-element is gone.
StyleFacade ==
    [][/\ last'.op = "p_set_style" =>
            LET p == doc[last'.pi]
                p1 == doc'[last'.pi]
            IN  /\ P_style(p1) = last'.sty
                /\ Count(p1, "w:pPr") = 1
                /\ RemoveAll(PropsOf(p1, "w:pPr"), "w:pStyle")
                       = RemoveAll(PropsOf(p, "w:pPr"), "w:pStyle")
                /\ RemoveAll(p1, "w:pPr") = RemoveAll(p, "w:pPr")
                /\ last'.sty = NoStyle => ~HasTag(PropsOf(p1, "w:pPr"), "w:pStyle")
       /\ last'.op = "r_set_style" =>
            LET r == doc[last'.pi][last'.i].kids
                r1 == doc'[last'.pi][last'.i].kids
            IN  /\ R_style(r1) = last'.sty
                /\ Count(r1, "w:rPr") = 1
                /\ RemoveAll(PropsOf(r1, "w:rPr"), "w:rStyle")
                       = RemoveAll(PropsOf(r, "w:rPr"), "w:rStyle")
                /\ RemoveAll(r1, "w:rPr") = RemoveAll(r, "w:rPr")
                /\ last'.sty = NoStyle => ~HasTag(PropsOf(r1, "w:rPr"), "w:rStyle")
       /\ last'.op = "p_style" =>
            LET p == doc[last'.pi]
            IN  (~HasTag(p, "w:pPr") \/ ~HasTag(PropsOf(p, "w:pPr"), "w:pStyle"))
                    => last'.sty = NoStyle
       /\ last'.op = "r_style" =>
            LET r == doc[last'.pi][last'.i].kids
            IN  (~HasTag(r, "w:rPr") \/ ~HasTag(PropsOf(r, "w:rPr"), "w:rStyle"))
                    => last'.sty = NoStyle]_vars

\* the style of a paragraph that had one was set to None and its w:pPr still
\* holds the w:jc
StyleFacadeWitness ==
    /\ last.op = "p_set_style"
    /\ last.sty = NoStyle
    /\ last.had
    /\ PropsOf(doc[last.pi], "w:pPr") = <<Empty("w:jc")>>

-----------------------------------------------------------------------------
(* Document.fudge_list_markers.                                            *)

\* bound: the paragraphs of the document whose list markers are made
MaxParas == 3

\* the descendants of a paragraph with the tag, in document order:
\* xpath(".//tag") on a w:p
Descendants(p, tag) ==
    Flatten([k \in 1..Len(p) |-> SelectSeq(p[k].kids, LAMBDA e : e.tag = tag)])

\* get(pth, x) raises: x has no sub-element of the tag (xpath(pth)[0]) or
\* the first one has no attribute (attrib.values()[0])
GetRaises(x, tag) ==
    \/ ~HasTag(x.kids, tag)
    \/ x.kids[FirstIndex(x.kids, tag)].val = ""

\* the paragraphs whose w:numPr is looked up: if p
Numbered(d) == {pi \in 1..Len(d) : Descendants(d[pi], "w:numPr") # <<>>}

\* the lookup of w:numId and w:ilvl raises for the paragraph
LookupRaises(p) ==
    LET x == Descendants(p, "w:numPr")[1]
    IN  GetRaises(x, "w:numId") \/ GetRaises(x, "w:ilvl")

\* the mutant of fudge_list_markers: the lookup is not in a try, so that
\* what it raises leaves the call
fudge_list_markers_NoTry(d) ==
    IF \E pi \in Numbered(d) : LookupRaises(d[pi])
    THEN [doc |-> d, exc |-> "IndexError"]
    ELSE IF Numbered(d) # {} THEN [doc |-> d, exc |-> "TypeError"]
    ELSE [doc |-> d, exc |-> ""]

\* Document.fudge_list_markers: the body after the call and what it raised.
\* A failed lookup returns at once; with every lookup done, the marker of
\* the first numbered paragraph is num + ")" with num an int, which raises
\* before any text is set
fudge_list_markers(d) ==
    IF \E pi \in Numbered(d) : LookupRaises(d[pi])
    THEN [doc |-> d, exc |-> ""]
    ELSE IF Numbered(d) # {} THEN [doc |-> d, exc |-> "TypeError"]
    ELSE [doc |-> d, exc |-> ""]

-----------------------------------------------------------------------------
(* SpecFudge: documents of plain, numbered and badly numbered paragraphs.  *)

numPr(kids) == [Empty("w:numPr") EXCEPT !.kids = kids]

numId(val) == RunChild("w:numId", <<>>, "", "", NoId, val)

ilvl(val) == RunChild("w:ilvl", <<>>, "", "", NoId, val)

ParaKinds == {"plain", "aligned", "numbered", "noNumId", "noIlvl", "noVal"}

\* the paragraph of a kind at place pi of the body
ParaOfKind(kind, pi) ==
    LET run == ParChild("w:r", NoId, 2 * pi, <<Text(<<"a">>, "")>>)
        props(kids) == ParChild("w:pPr", NoId, 2 * pi - 1, kids)
    IN  IF kind = "plain" THEN <<run>>
        ELSE IF kind = "aligned" THEN <<props(<<Empty("w:jc")>>), run>>
        ELSE IF kind = "numbered"
             THEN <<props(<<numPr(<<ilvl("0"), numId("1")>>)>>), run>>
        ELSE IF kind = "noNumId" THEN <<props(<<numPr(<<ilvl("0")>>)>>), run>>
        ELSE IF kind = "noIlvl" THEN <<props(<<numPr(<<numId("1")>>)>>), run>>
        ELSE <<props(<<numPr(<<ilvl(""), numId("1")>>)>>), run>>

InitFudge ==
    /\ \E kinds \in Strings(ParaKinds, MaxParas) :
           doc = [pi \in 1..Len(kinds) |-> ParaOfKind(kinds[pi], pi)]
    /\ nextId = 0
    /\ nextUid = 2 * Len(doc) + 1
    /\ last = NoCall

FudgeListMarkers ==
    /\ LET res == fudge_list_markers(doc)
       IN  /\ doc' = res.doc
           /\ last' = [NoCall EXCEPT !.op = "fudge_list_markers", !.exc = res.exc]
    /\ UNCHANGED <<nextId, nextUid>>

NextFudge == FudgeListMarkers

SpecFudge == InitFudge /\ [][NextFudge]_vars

\* CT_P.text: the text of the runs of a paragraph
P_text(p) == Flatten([k \in 1..Len(p) |-> IF p[k].tag = "w:r" THEN text_of(p[k].kids) ELSE <<>>])

\* C15: when some paragraph has a w:numPr whose w:numId or w:ilvl cannot be
\* read, fudge_list_markers returns without raising and the text of every
\* paragraph is what it was.
FudgeAbortsSilently ==
    [][(/\ last'.op = "fudge_list_markers"
        /\ \E pi \in Numbered(doc) : LookupRaises(doc[pi]))
       => /\ last'.exc = ""
          /\ Len(doc') = Len(doc)
          /\ \A pi \in 1..Len(doc) : P_text(doc'[pi]) = P_text(doc[pi])]_vars

\* the call returned on a body with a paragraph whose w:numPr has no w:numId
\* after a paragraph whose numbering can be read
FudgeAbortsSilentlyWitness ==
    /\ last.op = "fudge_list_markers"
    /\ last.exc = ""
    /\ \E pi, pj \in Numbered(doc) :
           /\ pi < pj
           /\ ~LookupRaises(doc[pi])
           /\ GetRaises(Descendants(doc[pj], "w:numPr")[1], "w:numId")

-----------------------------------------------------------------------------
(* Properties of the deleted text of a run, checked under SpecCodec.       *)

\* the atoms with every w:t made a w:delText of the same content and the
\* same preserve mark
AsDeleted(atoms) ==
    [k \in 1..Len(atoms) |->
        IF atoms[k].tag = "w:t" THEN [atoms[k] EXCEPT !.tag = "w:delText"] ELSE atoms[k]]

\* C16: for every string, the atoms a run gets when its deltext is set are
\* those it gets when its text is set, with every w:t made a w:delText of
\* the same content and preserve mark and every w:tab and w:br the same and
\* in the same place.
DelEncoderRefines ==
    last.op = "set_deltext" =>
        Content(LastRun) = AsDeleted(append_to_run_from_text(<<>>, last.s))

\* the deltext of a run was set to a string with a tab and a line break
\* between characters
DelEncoderRefinesWitness ==
    /\ last.op = "set_deltext"
    /\ last.s = ExampleText
    /\ Count(LastRun, "w:delText") = 3
    /\ Count(LastRun, "w:tab") = 1
    /\ Count(LastRun, "w:br") = 1

\* C17: a slot declared ZeroOrOne occurs at most once among the children of
\* its parent: a run whose text or deltext was set, or that was cleared, has
\* at most one w:rPr and at most one w:delText, also when the deltext holds
\* tabs or line breaks.
SingletonCardinality ==
    last.op \in {"set_text", "set_deltext", "clear_content"} =>
        /\ Count(LastRun, "w:rPr") <= 1
        /\ Count(LastRun, "w:delText") <= 1

-----------------------------------------------------------------------------
(* Properties of the comment marks, checked under SpecComment.             *)

\* C18: after any of the comment linking calls on paragraphs and runs built
\* by the core calls, a w:pPr is the first child of its paragraph and a
\* w:rPr the first child of its run.
LeadingProperties ==
    \A pi \in 1..Len(doc) : \A k \in 1..Len(doc[pi]) :
        /\ doc[pi][k].tag = "w:pPr" => k = 1
        /\ doc[pi][k].tag = "w:r" =>
               \A j \in 1..Len(doc[pi][k].kids) : doc[pi][k].kids[j].tag = "w:rPr" => j = 1

\* C19: CT_P.link_comment(id, rangeStart = s, rangeEnd = e) on a paragraph of
\* n children with 0 <= s <= e < n puts, unless s = e = 0, the range start
\* right before the child that was at s and the range end right after the
\* child that was at e, every child in its order; with s = e = 0 the marks
\* enclose all the children.
RangeEncloses ==
    LET p == last.pre[last.pi]
        q == doc[last.pi]
        n == Len(p)
        s == last.rs
        e == last.re
    IN  (last.op = "p_link_comment" /\ 0 <= s /\ s <= e /\ e < n) =>
            /\ Len(q) = n + 2
            /\ IF s = 0 /\ e = 0
               THEN /\ IsStart(q[1], last.id)
                    /\ IsEnd(q[n + 2], last.id)
                    /\ SubSeq(q, 2, n + 1) = p
               ELSE /\ IsStart(q[s + 1], last.id)
                    /\ IsEnd(q[e + 3], last.id)
                    /\ SubSeq(q, 1, s) = SubSeq(p, 1, s)
                    /\ SubSeq(q, s + 2, e + 2) = SubSeq(p, s + 1, e + 1)
                    /\ SubSeq(q, e + 4, n + 2) = SubSeq(p, e + 2, n)

-----------------------------------------------------------------------------
(* SpecAnchor: the runs of a paragraph marked with comments, cleared and   *)
(* given text.                                                             *)

\* CT_P.clear_content: every child but the w:pPr is removed
P_clear_content(p) == SelectSeq(p, LAMBDA e : e.tag = "w:pPr")

InitAnchor ==
    /\ doc = << <<pPr, Run(2, <<"a">>)>> >>
    /\ nextId = 0
    /\ nextUid = 3
    /\ last = NoCall

\* p.clear_content()
ParClearContent(pi) ==
    /\ doc' = [doc EXCEPT ![pi] = P_clear_content(@)]
    /\ last' = [NoCall EXCEPT !.op = "p_clear_content", !.pi = pi]
    /\ UNCHANGED <<nextId, nextUid>>

NextAnchor ==
    \/ \E pos \in Runs(doc) : RunLinkComment(pos)
    \/ \E pi \in 1..Len(doc) : ParClearContent(pi)
    \/ \E pos \in Runs(doc) : ClearContent(pos[1], pos[2])
    \/ \E pos \in Runs(doc) : \E s \in {<<"a">>, ExampleText} : SetText(pos[1], pos[2], s)

SpecAnchor == InitAnchor /\ [][NextAnchor]_vars

\* C20: after any sequence of comment marking, clearing of the paragraph,
\* clearing of a run and setting of a run's text, the paragraph holds for
\* every comment id either one range start, one range end and one run with
\* the reference, or none of them; a cleared paragraph holds its w:pPr only.
AnchorCompleteness ==
    /\ \A pi \in 1..Len(doc) : \A id \in 0..(nextId - 1) :
           LET p == doc[pi]
               starts == Cardinality({k \in 1..Len(p) : IsStart(p[k], id)})
               ends == Cardinality({k \in 1..Len(p) : IsEnd(p[k], id)})
               refs == Cardinality({k \in 1..Len(p) : IsReferenceRun(p[k], id)})
           IN  \/ starts = 1 /\ ends = 1 /\ refs = 1
               \/ starts = 0 /\ ends = 0 /\ refs = 0
    /\ last.op = "p_clear_content" =>
           \A k \in 1..Len(doc[last.pi]) : doc[last.pi][k].tag = "w:pPr"

====
